---------------------------- MODULE Spec2Model ----------------------------
(***************************************************************************)
(* Model of the tcx crate: the decoded tree Database -> Activities ->      *)
(* Activity -> Lap -> Track -> Sample (src/src/lib.rs), the metric         *)
(* accessors of Track and Activity, and the info binary that prints them   *)
(* (src/bin/info.rs).                                                      *)
(*                                                                         *)
(* An f64 is modelled as an exact rational [n, d] in lowest terms with     *)
(* d > 0, or one of the non-finite values +inf = [1, 0], -inf = [-1, 0],   *)
(* NaN = [0, 0].  The inputs drawn below are small decimals whose sums,    *)
(* differences and quotients the model computes exactly; the rounding of   *)
(* binary floating point is not modelled.                                  *)
(*                                                                         *)
(* An Option<T> is a sequence of length at most one: <<>> is None and      *)
(* <<v>> is Some(v).  The outcome of a call is Returned(v) or Panicked.    *)
(***************************************************************************)
EXTENDS Integers, Sequences, FiniteSets, TLC

VARIABLES
    input,      \* Option: the document handed to Database::new (None: tree built by the caller)
    db,         \* Option: the decoded Database, a sequence of Activity values
    pc,         \* position of the caller / of main
    frame,      \* locals of main: activity index and the duration of line 53
    ret,        \* the last accessor call of the library client and its outcome
    stdout      \* the lines main has printed

vars == <<input, db, pc, frame, ret, stdout>>

None == <<>>
Some(v) == <<v>>

Returned(v) == [panicked |-> FALSE, val |-> <<v>>]
Panicked == [panicked |-> TRUE, val |-> <<>>]

---------------------------------------------------------------------------
\* f64 arithmetic

Abs(x) == IF x < 0 THEN -x ELSE x

RECURSIVE GCD(_, _)
GCD(a, b) == IF b = 0 THEN a ELSE GCD(b, a % b)

\* the rational n/d, d > 0, in lowest terms
F(n, d) ==
    LET g == GCD(Abs(n), d)
    IN  [n |-> (IF n < 0 THEN -(Abs(n) \div g) ELSE n \div g), d |-> d \div g]

Zero == F(0, 1)
Inf == [n |-> 1, d |-> 0]
NegInf == [n |-> -1, d |-> 0]
NaN == [n |-> 0, d |-> 0]

IsFinite(x) == x.d > 0
IsNaN(x) == x.d = 0 /\ x.n = 0
Sign(x) == IF x.n > 0 THEN 1 ELSE IF x.n < 0 THEN -1 ELSE 0

\* a + b
FAdd(a, b) ==
    IF IsNaN(a) \/ IsNaN(b) THEN NaN
    ELSE IF ~IsFinite(a) /\ ~IsFinite(b) THEN (IF a.n = b.n THEN a ELSE NaN)
    ELSE IF ~IsFinite(a) THEN a
    ELSE IF ~IsFinite(b) THEN b
    ELSE F(a.n * b.d + b.n * a.d, a.d * b.d)

\* a - b
FSub(a, b) == FAdd(a, [n |-> -b.n, d |-> b.d])

\* a / b
FDiv(a, b) ==
    IF IsNaN(a) \/ IsNaN(b) THEN NaN
    ELSE IF ~IsFinite(a) /\ ~IsFinite(b) THEN NaN
    ELSE IF ~IsFinite(a) THEN (IF Sign(b) < 0 THEN [n |-> -a.n, d |-> 0] ELSE a)
    ELSE IF ~IsFinite(b) THEN Zero
    ELSE IF b.n = 0 THEN (IF a.n = 0 THEN NaN ELSE IF a.n > 0 THEN Inf ELSE NegInf)
    ELSE F(Sign(b) * a.n * b.d, a.d * Abs(b.n))

\* a > b (false when either is NaN)
FGt(a, b) ==
    IF IsNaN(a) \/ IsNaN(b) THEN FALSE
    ELSE IF ~IsFinite(a) THEN a.n > 0 /\ a # b
    ELSE IF ~IsFinite(b) THEN b.n < 0
    ELSE a.n * b.d > b.n * a.d

\* Iterator::sum over f64
RECURSIVE FSum(_)
FSum(s) == IF s = <<>> THEN Zero ELSE FAdd(FSum(SubSeq(s, 1, Len(s) - 1)), s[Len(s)])

\* Iterator::sum over integers (the values drawn stay far from the width
\* of i32 and u64)
RECURSIVE ISum(_)
ISum(s) == IF s = <<>> THEN 0 ELSE ISum(SubSeq(s, 1, Len(s) - 1)) + s[Len(s)]

\* a slip: the cast rounds to the nearest whole number
AsU64_rounded(x) ==
    IF IsNaN(x) \/ x.n <= 0 THEN 0
    ELSE IF ~IsFinite(x) THEN 2147483647
    ELSE (2 * x.n + x.d) \div (2 * x.d)

\* `x as u64`: truncation toward zero, saturating at 0 for negatives and NaN
\* and at the largest value for +inf (the largest number of the model here)
AsU64(x) ==
    IF IsNaN(x) \/ x.n <= 0 THEN 0
    ELSE IF ~IsFinite(x) THEN 2147483647
    ELSE x.n \div x.d

\* `n as f64`
AsF64(n) == F(n, 1)

MapSeq(s, Op(_)) == [i \in 1..Len(s) |-> Op(s[i])]

---------------------------------------------------------------------------
\* lib.rs: the metric accessors

\* slice::windows(2)
Windows2(s) == [i \in 1..(IF Len(s) < 2 THEN 0 ELSE Len(s) - 1) |-> <<s[i], s[i + 1]>>]

\* a slip: a missing altitude counts as 0 m
altitude_difference_missing_as_zero(a, b) ==
    LET value(s) == IF s.altitude = None THEN Zero ELSE s.altitude[1]
    IN  Some(FSub(value(a), value(b)))

altitude_difference(a, b) ==
    IF a.altitude # None /\ b.altitude # None
    THEN Some(FSub(a.altitude[1], b.altitude[1]))
    ELSE None

\* .filter_map(f).filter(|d| d > &0.0).sum() of the two methods below
PositiveSum(opts) ==
    LET present == SelectSeq(opts, LAMBDA o : o # None)
        diffs == [i \in 1..Len(present) |-> present[i][1]]
    IN  FSum(SelectSeq(diffs, LAMBDA d : FGt(d, Zero)))

Track_ascent(track) ==
    PositiveSum(MapSeq(Windows2(track.samples), LAMBDA s : altitude_difference(s[1], s[2])))

Track_descent(track) ==
    PositiveSum(MapSeq(Windows2(track.samples), LAMBDA s : altitude_difference(s[2], s[1])))


Activity_distance(activity) ==
    Returned(FSum(MapSeq(activity.laps, LAMBDA l : l.distance)))

\* chrono::Duration::from_std(Duration::from_secs(secs)).unwrap(): whole seconds
Activity_duration(activity) ==
    LET secs == ISum(MapSeq(activity.laps, LAMBDA l : AsU64(l.time)))
    IN  Returned(secs)

\* i32 `/`: truncates toward zero, panics on a zero divisor
I32Div(a, b) ==
    IF b = 0 THEN Panicked
    ELSE Returned((IF (a < 0) # (b < 0) THEN -1 ELSE 1) * (Abs(a) \div Abs(b)))

Activity_heart_rate(activity) ==
    IF activity.laps = <<>> THEN Returned(0)
    ELSE I32Div(ISum(MapSeq(activity.laps, LAMBDA l : l.average_heart_rate.value)),
                Len(activity.laps))

Activity_calories(activity) ==
    Returned(ISum(MapSeq(activity.laps, LAMBDA l : l.calories)))

Activity_cadence(activity) ==
    I32Div(ISum(MapSeq(activity.laps, LAMBDA l : l.cadence)), Len(activity.laps))

RECURSIVE Flatten(_)
Flatten(seqs) == IF seqs = <<>> THEN <<>> ELSE Head(seqs) \o Flatten(Tail(seqs))

\* a slip: one track made of the samples of all laps
Activity_ascent_concatenated(activity) ==
    Returned(Track_ascent([samples |-> Flatten(MapSeq(activity.laps, LAMBDA l : l.track.samples))]))

Activity_ascent(activity) ==
    Returned(FSum(MapSeq(activity.laps, LAMBDA l : Track_ascent(l.track))))

Activity_descent(activity) ==
    Returned(FSum(MapSeq(activity.laps, LAMBDA l : Track_descent(l.track))))

\* std::time::Duration::from_secs_f64: panics when secs is negative or not
\* finite; the Duration is kept as its exact number of seconds
Duration_from_secs_f64(secs) ==
    IF ~IsFinite(secs) \/ secs.n < 0 THEN Panicked ELSE Returned(secs)

MetresPerKm == 1000

\* l.time / (l.distance / 1000.0)
LapPace(l) == FDiv(l.time, FDiv(l.distance, AsF64(MetresPerKm)))

\* a slip: total time over total distance
Activity_average_tempo_total(activity) ==
    LET time == FSum(MapSeq(activity.laps, LAMBDA l : l.time))
        distance == FSum(MapSeq(activity.laps, LAMBDA l : l.distance))
    IN  Duration_from_secs_f64(FDiv(time, FDiv(distance, AsF64(MetresPerKm))))

Activity_average_tempo(activity) ==
    LET secs == FDiv(FSum(MapSeq(activity.laps, LapPace)), AsF64(Len(activity.laps)))
    IN  Duration_from_secs_f64(secs)

---------------------------------------------------------------------------
\* lib.rs: decoding.  A document is the sequence of its Activities elements;
\* an Activity element is [laps]; a Lap element carries TotalTimeSeconds,
\* DistanceMeters and Track, and each of Calories, Cadence,
\* AverageHeartRateBpm, MaximumHeartRateBpm as an Option (None: the element
\* is left out); a Trackpoint element carries an optional AltitudeMeters and
\* its HeartRateBpm value.

\* Result<T, Error>
Ok(v) == [ok |-> TRUE, val |-> <<v>>]
ParseError == [ok |-> FALSE, val |-> <<>>]

AllOk(results) == \A i \in 1..Len(results) : results[i].ok
Unwrapped(results) == [i \in 1..Len(results) |-> results[i].val[1]]

DeSample(e) ==
    Ok([altitude |-> e.altitude, heart_rate |-> [value |-> e.heart_rate]])

\* a Vec field is a required field: no Trackpoint element, no Track
DeTrack(e) ==
    LET samples == MapSeq(e, DeSample)
    IN  IF e = <<>> \/ ~AllOk(samples) THEN ParseError
        ELSE Ok([samples |-> Unwrapped(samples)])

\* calories, cadence and the two heart rates are plain i32 / HeartRate
\* fields: the derive demands each of them
DeLap(e) ==
    LET track == DeTrack(e.track)
    IN  IF \/ ~track.ok
           \/ e.calories = None
           \/ e.cadence = None
           \/ e.average_heart_rate = None
           \/ e.maximum_heart_rate = None
        THEN ParseError
        ELSE Ok([time |-> e.time,
                 distance |-> e.distance,
                 track |-> track.val[1],
                 calories |-> e.calories[1],
                 cadence |-> e.cadence[1],
                 average_heart_rate |-> [value |-> e.average_heart_rate[1]],
                 maximum_heart_rate |-> [value |-> e.maximum_heart_rate[1]]])

\* laps is a Vec field, and so is Database::activities below: an Activity
\* without a Lap element, a document without an Activities element, lacks a
\* required field
DeActivity(e) ==
    LET laps == MapSeq(e.laps, DeLap)
    IN  IF e.laps = <<>> \/ ~AllOk(laps) THEN ParseError
        ELSE Ok([laps |-> Unwrapped(laps)])

Database_new(doc) ==
    LET activities == MapSeq(doc, DeActivity)
    IN  IF doc = <<>> \/ ~AllOk(activities) THEN ParseError
        ELSE Ok(Unwrapped(activities))

---------------------------------------------------------------------------
\* info.rs: formatting

Digit(n) == <<"0", "1", "2", "3", "4", "5", "6", "7", "8", "9">>[n + 1]

\* `{}` of an unsigned integer
RECURSIVE Display(_)
Display(n) == IF n < 10 THEN Digit(n) ELSE Display(n \div 10) \o Digit(n % 10)

\* `{:02}` of a non-negative integer
Display02(n) == IF n < 10 THEN "0" \o Display(n) ELSE Display(n)

RECURSIVE Pow10(_)
Pow10(p) == IF p = 0 THEN 1 ELSE 10 * Pow10(p - 1)

RECURSIVE ZeroPad(_, _)
ZeroPad(str, missing) == IF missing <= 0 THEN str ELSE ZeroPad("0" \o str, missing - 1)

DigitCount(n) == IF n < 10 THEN 1 ELSE IF n < 100 THEN 2 ELSE 3

\* `{:.p}` of a non-negative f64, p in 1..3: rounds to the nearest, ties to even
DisplayFixed(x, p) ==
    IF IsNaN(x) THEN "NaN"
    ELSE IF ~IsFinite(x) THEN "inf"
    ELSE LET scale == Pow10(p)
             twice == (2 * x.n * scale) \div x.d
             down == (x.n * scale) \div x.d
             tie == (2 * x.n * scale) % x.d = 0 /\ twice % 2 = 1
             units == IF tie THEN (IF down % 2 = 0 THEN down ELSE down + 1)
                      ELSE (twice + 1) \div 2
             frac == units % scale
         IN  Display(units \div scale) \o "." \o ZeroPad(Display(frac), p - DigitCount(frac))

U8Wrap == 256

\* Pace::from_duration
Pace_from_duration(duration) ==
    LET total_secs == duration.n \div duration.d
        hours == (total_secs \div 60) \div 60
        mins == (total_secs - hours * 60 * 60) \div 60
        secs == total_secs - hours * 60 * 60 - mins * 60
    IN  [hours |-> hours % U8Wrap, mins |-> mins % U8Wrap, secs |-> secs % U8Wrap]

\* impl fmt::Display for Pace
Pace_fmt(pace) ==
    IF pace.hours = 0
    THEN Display(pace.mins) \o ":" \o Display(pace.secs) \o " min/km"
    ELSE Display(pace.hours) \o ":" \o Display(pace.mins) \o ":" \o Display(pace.secs)
         \o " min/km"

---------------------------------------------------------------------------
\* The state machine.  pc = "start": main has the document and has not
\* decoded it; "loaded": a Database exists (decoded, or built by the caller
\* from the public fields) and the library client may call any accessor;
\* "for" .. "line65": main's loop over db.activities (info.rs 51-70);
\* "exit_ok" / "exit_err": main returned; "panicked": the process aborted.

NoCall == [op |-> "none", act |-> 0, lap |-> 0, out |-> [panicked |-> FALSE, val |-> <<>>]]
NoFrame == [i |-> 0, duration |-> 0]

TheDb == db[1]

DatabaseNew ==
    /\ pc = "start"
    /\ LET r == Database_new(input[1])
       IN  /\ db' = r.val
           /\ pc' = IF r.ok THEN "loaded" ELSE "exit_err"
    /\ UNCHANGED <<input, frame, ret, stdout>>

Call(op, act, lap, out) ==
    /\ ret' = [op |-> op, act |-> act, lap |-> lap, out |-> out]
    /\ UNCHANGED <<input, db, pc, frame, stdout>>

CallTrackAscent ==
    /\ pc = "loaded"
    /\ \E a \in 1..Len(TheDb) : \E l \in 1..Len(TheDb[a].laps) :
         Call("Track::ascent", a, l, Returned(Track_ascent(TheDb[a].laps[l].track)))

CallTrackDescent ==
    /\ pc = "loaded"
    /\ \E a \in 1..Len(TheDb) : \E l \in 1..Len(TheDb[a].laps) :
         Call("Track::descent", a, l, Returned(Track_descent(TheDb[a].laps[l].track)))

CallDistance ==
    /\ pc = "loaded"
    /\ \E a \in 1..Len(TheDb) : Call("Activity::distance", a, 0, Activity_distance(TheDb[a]))

CallDuration ==
    /\ pc = "loaded"
    /\ \E a \in 1..Len(TheDb) : Call("Activity::duration", a, 0, Activity_duration(TheDb[a]))

CallHeartRate ==
    /\ pc = "loaded"
    /\ \E a \in 1..Len(TheDb) : Call("Activity::heart_rate", a, 0, Activity_heart_rate(TheDb[a]))

CallCalories ==
    /\ pc = "loaded"
    /\ \E a \in 1..Len(TheDb) : Call("Activity::calories", a, 0, Activity_calories(TheDb[a]))

CallCadence ==
    /\ pc = "loaded"
    /\ \E a \in 1..Len(TheDb) : Call("Activity::cadence", a, 0, Activity_cadence(TheDb[a]))

CallAscent ==
    /\ pc = "loaded"
    /\ \E a \in 1..Len(TheDb) : Call("Activity::ascent", a, 0, Activity_ascent(TheDb[a]))

CallDescent ==
    /\ pc = "loaded"
    /\ \E a \in 1..Len(TheDb) : Call("Activity::descent", a, 0, Activity_descent(TheDb[a]))

CallAverageTempo ==
    /\ pc = "loaded"
    /\ \E a \in 1..Len(TheDb) :
         Call("Activity::average_tempo", a, 0, Activity_average_tempo(TheDb[a]))

\* Line 58, which prints the sport and the id, is left out with those two
\* fields; the arrows of line 66 are written "up" and "down".

\* info.rs 51: the next activity of db.activities, or Ok(()) after the last
MainFor ==
    /\ pc \in {"loaded", "for"}
    /\ input # None
    /\ IF frame.i < Len(TheDb)
       THEN /\ frame' = [frame EXCEPT !.i = frame.i + 1]
            /\ pc' = "line53"
       ELSE /\ frame' = frame
            /\ pc' = "exit_ok"
    /\ ret' = NoCall
    /\ UNCHANGED <<input, db, stdout>>

Current == TheDb[frame.i]

\* a println!, or the abort of the process when the accessor panicked
Println(out, line, next) ==
    /\ IF out.panicked
       THEN /\ pc' = "panicked"
            /\ stdout' = stdout
       ELSE /\ pc' = next
            /\ stdout' = Append(stdout, line)
    /\ UNCHANGED <<input, db, frame, ret>>

\* info.rs 53
MainDuration ==
    /\ pc = "line53"
    /\ LET out == Activity_duration(Current)
       IN  /\ pc' = IF out.panicked THEN "panicked" ELSE "line59"
           /\ frame' = IF out.panicked THEN frame ELSE [frame EXCEPT !.duration = out.val[1]]
    /\ UNCHANGED <<input, db, ret, stdout>>

\* info.rs 59
MainDistance ==
    /\ pc = "line59"
    /\ LET out == Activity_distance(Current)
       IN  Println(out,
                   "  Distance: " \o DisplayFixed(FDiv(out.val[1], AsF64(MetresPerKm)), 2) \o " km",
                   "line60")

\* info.rs 54-56, 60
MainTime ==
    /\ pc = "line60"
    /\ LET seconds == frame.duration % 60
           minutes == (frame.duration \div 60) % 60
           hours == (frame.duration \div 60) \div 60
       IN  Println(Returned(0),
                   "  Time: " \o Display02(hours) \o ":" \o Display02(minutes) \o ":"
                       \o Display02(seconds),
                   "line61")

\* info.rs 61
MainTempo ==
    /\ pc = "line61"
    /\ LET out == Activity_average_tempo(Current)
       IN  Println(out, "  Tempo: " \o Pace_fmt(Pace_from_duration(out.val[1])), "line62")

\* info.rs 62
MainHeartRate ==
    /\ pc = "line62"
    /\ LET out == Activity_heart_rate(Current)
       IN  Println(out, "  Heart rate: " \o Display(out.val[1]) \o " bpm", "line63")

\* info.rs 63
MainEnergy ==
    /\ pc = "line63"
    /\ LET out == Activity_calories(Current)
       IN  Println(out, "  Energy: " \o Display(out.val[1]) \o " kcal", "line64")

\* info.rs 64
MainCadence ==
    /\ pc = "line64"
    /\ LET out == Activity_cadence(Current)
       IN  Println(out, "  Cadence: " \o Display(out.val[1]) \o " steps/min", "line65")

\* info.rs 65-69
MainIncline ==
    /\ pc = "line65"
    /\ LET up == Activity_ascent(Current)
           down == Activity_descent(Current)
       IN  Println(up,
                   "  Incline: up " \o DisplayFixed(up.val[1], 1) \o ", down "
                       \o DisplayFixed(down.val[1], 1) \o " m",
                   "for")

ClientNext ==
    \/ CallTrackAscent
    \/ CallTrackDescent
    \/ CallDistance
    \/ CallDuration
    \/ CallHeartRate
    \/ CallCalories
    \/ CallCadence
    \/ CallAscent
    \/ CallDescent
    \/ CallAverageTempo

MainNext ==
    \/ MainFor
    \/ MainDuration
    \/ MainDistance
    \/ MainTime
    \/ MainTempo
    \/ MainHeartRate
    \/ MainEnergy
    \/ MainCadence
    \/ MainIncline

Next == DatabaseNew \/ ClientNext \/ MainNext

---------------------------------------------------------------------------
\* Inputs

MaxLaps == 2          \* laps of an activity
MaxSamples == 4       \* samples of an activity, over all its laps
MaxActivities == 2    \* Activities elements of a document

SeqsUpTo(S, n) == UNION {[1..k -> S] : k \in 0..n}

\* Trees built by the caller from the public fields of lib.rs.
Sample(altitude, bpm) == [altitude |-> altitude, heart_rate |-> [value |-> bpm]]

Lap(time, distance, samples) ==
    [time |-> time,
     distance |-> distance,
     track |-> [samples |-> samples],
     calories |-> 250,
     cadence |-> 80,
     average_heart_rate |-> [value |-> 130],
     maximum_heart_rate |-> [value |-> 140]]

\* altitudes: none, 10 m, 15 m
ElevationSamples == {Sample(None, 120), Sample(Some(F(10, 1)), 120), Sample(Some(F(15, 1)), 120)}

\* the sequences of k tracks that hold at most budget samples together
RECURSIVE TrackSeqs(_, _)
TrackSeqs(k, budget) ==
    IF k = 0 THEN {<<>>}
    ELSE UNION {{<<t>> \o rest : t \in [1..m -> ElevationSamples],
                                 rest \in TrackSeqs(k - 1, budget - m)} : m \in 0..budget}

ElevationActivities ==
    {[laps |-> [i \in 1..Len(ts) |-> Lap(F(300, 1), F(1000, 1), ts[i])]] :
        ts \in UNION {TrackSeqs(k, MaxSamples) : k \in 0..MaxLaps}}

\* lap times 0, 5.4, 10.7 and 300 s; lap distances 0, 500, 1000 m
LapTimes == {Zero, F(27, 5), F(107, 10), F(300, 1)}
LapDistances == {Zero, F(500, 1), F(1000, 1)}

MetricsLaps == {Lap(t, d, <<>>) : t \in LapTimes, d \in LapDistances}

MetricsActivities == {[laps |-> ls] : ls \in SeqsUpTo(MetricsLaps, MaxLaps)}

\* Documents.
Trackpoint(altitude, bpm) == [altitude |-> altitude, heart_rate |-> bpm]

TrackElements == {<<>>, <<Trackpoint(Some(F(10, 1)), 120), Trackpoint(Some(F(15, 1)), 140)>>}

LapElements ==
    {[time |-> F(300, 1), distance |-> d, track |-> t, calories |-> cal, cadence |-> cad,
      average_heart_rate |-> avg, maximum_heart_rate |-> max] :
        d \in {Zero, F(1000, 1)}, t \in TrackElements,
        cal \in {None, Some(250)}, cad \in {None, Some(80)},
        avg \in {None, Some(80), Some(130)}, max \in {None, Some(140)}}

\* the Lap elements that carry every field and a Trackpoint
CompleteLapElements ==
    {e \in LapElements : DeLap(e).ok}

Documents ==
    {<<>>}
    \cup {<<[laps |-> ls]>> : ls \in SeqsUpTo(LapElements, MaxLaps)}
    \cup UNION {{[i \in 1..k |-> [laps |-> <<ls[i]>>]] : ls \in [1..k -> CompleteLapElements]} :
                    k \in 2..MaxActivities}

Init ==
    /\ input \in {Some(doc) : doc \in Documents}
    /\ db = None
    /\ pc = "start"
    /\ frame = NoFrame
    /\ ret = NoCall
    /\ stdout = <<>>

Spec == Init /\ [][Next]_vars

Built(activities) ==
    /\ input = None
    /\ db \in {Some(<<a>>) : a \in activities}
    /\ pc = "loaded"
    /\ frame = NoFrame
    /\ ret = NoCall
    /\ stdout = <<>>

ElevationInit == Built(ElevationActivities)

SpecElevation == ElevationInit /\ [][ClientNext]_vars

MetricsInit == Built(MetricsActivities)

SpecMetrics == MetricsInit /\ [][ClientNext]_vars

---------------------------------------------------------------------------
\* Properties

\* the activity / the track the last call was made on
CalledActivity == TheDb[ret.act]
CalledTrack == TheDb[ret.act].laps[ret.lap].track

ActivityOps ==
    {"Activity::distance", "Activity::duration", "Activity::heart_rate", "Activity::calories",
     "Activity::cadence", "Activity::ascent", "Activity::descent", "Activity::average_tempo"}

\* sum of f[i] over the finite index set S
RECURSIVE SetSum(_, _)
SetSum(S, f) ==
    IF S = {} THEN Zero
    ELSE LET i == CHOOSE j \in S : TRUE
         IN  FAdd(f[i], SetSum(S \ {i}, f))

\* the consecutive pairs of a track whose two samples both carry an altitude
BothPresent(samples) ==
    {i \in 1..(Len(samples) - 1) : samples[i].altitude # None /\ samples[i + 1].altitude # None}

Positive(x) == IF FGt(x, Zero) THEN x ELSE Zero

\* metres climbed / dropped over the pairs of BothPresent
Rise(samples) ==
    SetSum(BothPresent(samples),
           [i \in BothPresent(samples) |->
               Positive(FSub(samples[i + 1].altitude[1], samples[i].altitude[1]))])

Fall(samples) ==
    SetSum(BothPresent(samples),
           [i \in BothPresent(samples) |->
               Positive(FSub(samples[i].altitude[1], samples[i + 1].altitude[1]))])

AllAltitudes(samples) == \A i \in 1..Len(samples) : samples[i].altitude # None
NonDecreasing(samples) ==
    \A i \in 1..(Len(samples) - 1) :
        ~FGt(samples[i].altitude[1], samples[i + 1].altitude[1])
NonIncreasing(samples) ==
    \A i \in 1..(Len(samples) - 1) :
        ~FGt(samples[i + 1].altitude[1], samples[i].altitude[1])
First(samples) == samples[1].altitude[1]
Last(samples) == samples[Len(samples)].altitude[1]

\* C1: on an Activity with zero laps each of distance(), heart_rate(),
\* cadence(), calories(), ascent() and descent() returns normally, with 0.
C1_ZeroLapsReturnZero ==
    (/\ ret.op \in {"Activity::distance", "Activity::heart_rate", "Activity::cadence",
                    "Activity::calories", "Activity::ascent", "Activity::descent"}
     /\ CalledActivity.laps = <<>>)
    => ret.out = Returned(IF ret.op \in {"Activity::distance", "Activity::ascent",
                                          "Activity::descent"}
                          THEN Zero ELSE 0)

\* C2: on a track whose samples all carry an altitude, a non-decreasing
\* altitude sequence gives descent() = 0 and ascent() = last - first, and a
\* non-increasing one gives ascent() = 0 and descent() = first - last.
C2_MonotoneElevation ==
    (/\ ret.op \in {"Track::ascent", "Track::descent"}
     /\ CalledTrack.samples # <<>>
     /\ AllAltitudes(CalledTrack.samples))
    => LET samples == CalledTrack.samples
           climbing == ret.op = "Track::ascent"
       IN  /\ NonDecreasing(samples) =>
                ret.out = Returned(IF climbing THEN FSub(Last(samples), First(samples)) ELSE Zero)
           /\ NonIncreasing(samples) =>
                ret.out = Returned(IF climbing THEN Zero ELSE FSub(First(samples), Last(samples)))

\* C3: a pair of consecutive samples of which one has no altitude adds
\* nothing to Track.ascent() nor to Track.descent(): each total is made of
\* the pairs that carry both altitudes alone, the two totals together are
\* the metres climbed plus the metres dropped over those pairs, and a track
\* with no such pair gives 0.
C3_MissingAltitudeSkipped ==
    ret.op \in {"Track::ascent", "Track::descent"}
    => LET samples == CalledTrack.samples
       IN  /\ ~ret.out.panicked
           /\ ret.out.val[1] \in {Rise(samples), Fall(samples)}
           /\ FAdd(Track_ascent(CalledTrack), Track_descent(CalledTrack))
                = FAdd(Rise(samples), Fall(samples))
           /\ BothPresent(samples) = {} => ret.out = Returned(Zero)

\* altitudes [10, None, 15]: ascent() was called and returned 0
C3_Witness ==
    /\ ret.op = "Track::ascent"
    /\ [i \in 1..Len(CalledTrack.samples) |-> CalledTrack.samples[i].altitude]
         = <<Some(F(10, 1)), None, Some(F(15, 1))>>
    /\ ret.out = Returned(Zero)

\* whole seconds of a non-negative time: the k with k <= time < k + 1
WholeSeconds(time) == CHOOSE k \in 0..time.n : k * time.d <= time.n /\ time.n < (k + 1) * time.d

RECURSIVE TruncatedTotal(_)
TruncatedTotal(laps) ==
    IF laps = <<>> THEN 0 ELSE WholeSeconds(Head(laps).time) + TruncatedTotal(Tail(laps))

\* C4: duration() is the sum over the laps of each lap's time cut down to
\* whole seconds before the summation.
C4_DurationTruncates ==
    ret.op = "Activity::duration" => ret.out = Returned(TruncatedTotal(CalledActivity.laps))

\* lap times [10.7, 5.4]: duration() returned 15
C4_Witness ==
    /\ ret.op = "Activity::duration"
    /\ MapSeq(CalledActivity.laps, LAMBDA l : l.time) = <<F(107, 10), F(27, 5)>>
    /\ ret.out = Returned(15)

PositiveDistances(laps) == \A i \in 1..Len(laps) : laps[i].distance.n > 0

\* seconds per kilometre of a lap of positive distance
PacePerKm(l) == F(l.time.n * 1000 * l.distance.d, l.time.d * l.distance.n)

RECURSIVE PaceTotal(_)
PaceTotal(laps) ==
    IF laps = <<>> THEN Zero ELSE FAdd(PacePerKm(Head(laps)), PaceTotal(Tail(laps)))

\* C5: average_tempo() is the arithmetic mean over the laps of the per-lap
\* pace time / (distance / 1000); two laps of equal distance with paces T1
\* and T2 give (T1 + T2) / 2.
C5_TempoIsMeanOfLapPaces ==
    (/\ ret.op = "Activity::average_tempo"
     /\ CalledActivity.laps # <<>>
     /\ PositiveDistances(CalledActivity.laps))
    => LET laps == CalledActivity.laps
           total == PaceTotal(laps)
       IN  /\ ret.out = Returned(F(total.n, total.d * Len(laps)))
           /\ (Len(laps) = 2 /\ laps[1].distance = laps[2].distance) =>
                FAdd(ret.out.val[1], ret.out.val[1])
                  = FAdd(PacePerKm(laps[1]), PacePerKm(laps[2]))

\* laps of 300 s over 500 m and 300 s over 1000 m: the mean of 600 and
\* 300 s/km is 450 s/km, where total time over total distance is 400 s/km
C5_Witness ==
    /\ ret.op = "Activity::average_tempo"
    /\ Len(CalledActivity.laps) = 2
    /\ CalledActivity.laps[1].time = F(300, 1) /\ CalledActivity.laps[1].distance = F(500, 1)
    /\ CalledActivity.laps[2].time = F(300, 1) /\ CalledActivity.laps[2].distance = F(1000, 1)
    /\ ret.out = Returned(F(450, 1))

\* C7: average_tempo() of an activity with a lap of zero distance returns a
\* value, the non-finite pace carried into it.
C7_ZeroDistanceTempoReturns ==
    (/\ ret.op = "Activity::average_tempo"
     /\ \E i \in 1..Len(CalledActivity.laps) : CalledActivity.laps[i].distance = Zero)
    => /\ ~ret.out.panicked
       /\ ~IsFinite(ret.out.val[1])

RECURSIVE Total(_)
Total(values) == IF values = <<>> THEN Zero ELSE FAdd(Head(values), Total(Tail(values)))

\* the per-lap values of a track metric, added up lap by lap
LapTotal(laps, Metric(_)) == Total([i \in 1..Len(laps) |-> Metric(laps[i].track)])

RiseOfTrack(track) == Rise(track.samples)
FallOfTrack(track) == Fall(track.samples)

\* C10: Activity.ascent() (descent()) is the sum over the laps, in order, of
\* the lap's Track.ascent() (descent()), so that it is made of pairs of
\* samples of one lap alone: the step from the last sample of a lap to the
\* first of the next is in neither total.
C10_ElevationSumsLaps ==
    ret.op \in {"Activity::ascent", "Activity::descent"}
    => LET laps == CalledActivity.laps
       IN  /\ ret.op = "Activity::ascent" => ret.out = Returned(LapTotal(laps, Track_ascent))
           /\ ret.op = "Activity::descent" => ret.out = Returned(LapTotal(laps, Track_descent))
           /\ ret.out.val[1] \in {LapTotal(laps, RiseOfTrack), LapTotal(laps, FallOfTrack)}

\* two laps, the first ending at 15 m and the second starting at 10 m, each
\* level in itself: ascent() was called and returned 0
C10_Witness ==
    /\ ret.op = "Activity::ascent"
    /\ Len(CalledActivity.laps) = 2
    /\ LET one == CalledActivity.laps[1].track.samples
           two == CalledActivity.laps[2].track.samples
       IN  /\ Len(one) = 2 /\ Len(two) = 2
           /\ \A i \in 1..2 : one[i].altitude = Some(F(15, 1)) /\ two[i].altitude = Some(F(10, 1))
    /\ ret.out = Returned(Zero)

---------------------------------------------------------------------------
\* Properties of decoding and of main

Decoding == pc = "start"

\* the Lap elements of a document
LapsOf(doc) == Flatten([a \in 1..Len(doc) |-> doc[a].laps])

\* a document with an activity, every activity with a lap, every lap with
\* TotalTimeSeconds, DistanceMeters and a Track of trackpoints
WellFormed(doc) ==
    /\ doc # <<>>
    /\ \A a \in 1..Len(doc) : doc[a].laps # <<>>
    /\ \A i \in 1..Len(LapsOf(doc)) : LapsOf(doc)[i].track # <<>>

\* the average heart rate of a Lap element: the one it carries, else the
\* mean of the readings of its trackpoints, 0 when it has none
LapAverage(e) ==
    IF e.average_heart_rate # None THEN e.average_heart_rate[1]
    ELSE IF e.track = <<>> THEN 0
    ELSE ISum(MapSeq(e.track, LAMBDA t : t.heart_rate)) \div Len(e.track)

MeanOfLapAverages(laps) == ISum(MapSeq(laps, LapAverage)) \div Len(laps)

\* C6: heart_rate() of an activity with a lap or more is the mean, each lap
\* counting once, of the laps' average heart rates; a lap's average is the
\* one it carries, else the mean of the readings of its samples.
C6_HeartRateMeanOfLaps ==
    (/\ ~Decoding
     /\ WellFormed(input[1])
     /\ \A i \in 1..Len(LapsOf(input[1])) :
          LET e == LapsOf(input[1])[i]
          IN  e.calories # None /\ e.cadence # None /\ e.maximum_heart_rate # None)
    => /\ db # None
       /\ ret.op = "Activity::heart_rate" =>
            ret.out = Returned(MeanOfLapAverages(input[1][ret.act].laps))

\* C8: a Lap element that leaves out Calories, Cadence, AverageHeartRateBpm
\* or MaximumHeartRateBpm does not make Database::new fail.
C8_OptionalLapFieldsDecode ==
    (~Decoding /\ WellFormed(input[1])) => (db # None /\ pc # "exit_err")

\* one activity, one lap of 1000 m in 300 s, trackpoints at 10 m / 120 bpm
\* and 15 m / 140 bpm; the lap carries its summary fields, the average
\* heart rate being that of the trackpoints
MinimalDocument ==
    <<[laps |-> <<[time |-> F(300, 1),
                   distance |-> F(1000, 1),
                   track |-> <<Trackpoint(Some(F(10, 1)), 120), Trackpoint(Some(F(15, 1)), 140)>>,
                   calories |-> Some(250),
                   cadence |-> Some(80),
                   average_heart_rate |-> Some(130),
                   maximum_heart_rate |-> Some(140)]>>]>>

Finished == pc \in {"exit_ok", "exit_err", "panicked"}

\* C9: for the minimal document main prints a distance of 1 km, a time of
\* 5:00, a tempo of "5:00 min/km", a heart rate of 130 bpm, an ascent of 5.0
\* and a descent of 0.0 m.
C9_EndToEnd ==
    (Finished /\ input = Some(MinimalDocument))
    => /\ pc = "exit_ok"
       /\ Len(stdout) = 7
       /\ stdout[1] = "  Distance: 1.00 km"
       /\ stdout[2] = "  Time: 00:05:00"
       /\ stdout[3] = "  Tempo: 5:00 min/km"
       /\ stdout[4] = "  Heart rate: 130 bpm"
       /\ stdout[7] = "  Incline: up 5.0, down 0.0 m"

====
